---- MODULE Spec2Model ----
(***************************************************************************)
(* Model of actions/python/quality-report/src/builder.py: six parsers of   *)
(* tool artifacts (ruff, pyright, junit, coverage, bandit, command status  *)
(* log), the aggregation and gate decision of main(), and the three output *)
(* writers.                                                                *)
(*                                                                         *)
(* Units.  Percentages are integers: a raw percent_covered of an artifact  *)
(* and the --coverage-threshold are in thousandths of a percent, a value   *)
(* after round(x, 2) is in hundredths of a percent.                        *)
(***************************************************************************)
EXTENDS Integers, Sequences, FiniteSets, TLC

VARIABLES
    pc,               \* position of main()
    args,             \* the parsed command line: the three policy parameters
    fs,               \* the six input artifacts as they are on disk
    ruff_findings,    \* main's locals, in the order main assigns them
    pyright,
    junit,
    cov,
    below_threshold,
    bandit,
    command_results,
    command_failures,
    summary,
    gates,
    report_file,      \* the three output files
    summary_file,
    outputs_file,
    exit_status,
    raised_in         \* the function whose exception ended the run, "" if none

vars == <<pc, args, fs, ruff_findings, pyright, junit, cov, below_threshold,
          bandit, command_results, command_failures, summary, gates,
          report_file, summary_file, outputs_file, exit_status, raised_in>>

locals == <<ruff_findings, pyright, junit, cov, below_threshold, bandit,
            command_results, command_failures, summary, gates>>

outs == <<report_file, summary_file, outputs_file>>

----------------------------------------------------------------------------
(* Program constants and bounds *)

MAX_ITEMS == 50

\* lists of the long artifacts run this many entries past MAX_ITEMS
Extra == 2

\* longest arbitrary tail that follows the run of equal entries of a long list
MaxTail == 2

\* largest count written in a count field of an artifact
MaxCount == 2

----------------------------------------------------------------------------
(* Sequences *)

\* as Take, with the slice one element too long
TakeOneMore(s, n) == SubSeq(s, 1, IF Len(s) < n + 1 THEN Len(s) ELSE n + 1)

Take(s, n) == SubSeq(s, 1, IF Len(s) < n THEN Len(s) ELSE n)

Pad(x, n) == [i \in 1..n |-> x]

Iota(n) == [i \in 1..n |-> i]

\* the tuples over S of length 0..n
SeqsUpTo(S, n) == UNION {[1..k -> S] : k \in 0..n}

----------------------------------------------------------------------------
(* Scalar fields of an artifact: a JSON value under a key, or an XML       *)
(* attribute.  t says what is there, v is the number an int or a numeric   *)
(* string denotes.                                                         *)

Absent   == [t |-> "absent",   v |-> 0]
Null     == [t |-> "null",     v |-> 0]
EmptyStr == [t |-> "emptystr", v |-> 0]
BadStr   == [t |-> "badstr",   v |-> 0]    \* a string such as "abc"
Int_(n)  == [t |-> "int",      v |-> n]
NumStr(n) == [t |-> "numstr",  v |-> n]    \* a string such as "3"

\* Python truthiness of d.get(key, 0): the default 0, None, 0 and "" are falsy
Falsy(x) == x.t \in {"absent", "null", "emptystr"} \/ (x.t = "int" /\ x.v = 0)

\* int(d.get(key, 0) or 0): raises ValueError on a non-numeric string
IntOrZeroRaises(x) == ~Falsy(x) /\ x.t = "badstr"

IntOrZero(x) == IF Falsy(x) \/ x.t = "badstr" THEN 0 ELSE x.v

\* round(x, 2) of a value in thousandths, to hundredths (ties to even)
Round2(raw) ==
    LET q == raw \div 10
        r == raw % 10
    IN  IF r > 5 \/ (r = 5 /\ q % 2 = 1) THEN q + 1 ELSE q

\* float(text) raises on None and on a non-numeric string
FloatRaises(x) == x.t \in {"null", "emptystr", "badstr"}

----------------------------------------------------------------------------
(* read_json.  A JSON artifact: st is the state of the file on disk, root  *)
(* the type of the JSON root, and the other fields are the keys the        *)
(* parsers read (a list-valued key that is absent, null or empty is <<>>). *)

EmptyDict ==
    [st |-> "json", root |-> "dict", items |-> <<>>,
     errorCount |-> Absent, warningCount |-> Absent, generalDiagnostics |-> <<>>,
     percent_covered |-> Absent, files |-> <<>>, results |-> <<>>]

JsonFile(st, root) == [EmptyDict EXCEPT !.st = st, !.root = root]

\* json.loads raises on text that is not JSON
ReadJsonRaises(f) == f.st = "bad"

read_json(f) == IF f.st \in {"missing", "blank"} THEN EmptyDict ELSE f

----------------------------------------------------------------------------
(* parse_ruff *)

parse_ruff(f) ==
    LET data == read_json(f)
    IN  [raised |-> ReadJsonRaises(f),
         findings |-> IF ~ReadJsonRaises(f) /\ data.root = "list"
                      THEN data.items ELSE <<>>]

----------------------------------------------------------------------------
(* parse_pyright.  A diagnostic carries its 0-based start line. *)

NormalizeDiag(d) == [file |-> d.file, line |-> d.line + 1]

parse_pyright(f) ==
    LET data == read_json(f)
        isDict == ~ReadJsonRaises(f) /\ data.root = "dict"
        raised == ReadJsonRaises(f)
                  \/ (isDict /\ (IntOrZeroRaises(data.errorCount)
                                 \/ IntOrZeroRaises(data.warningCount)))
        ok == isDict /\ ~raised
        diags == Take(data.generalDiagnostics, MAX_ITEMS)
    IN  [raised |-> raised,
         errors |-> IF ok THEN IntOrZero(data.errorCount) ELSE 0,
         warnings |-> IF ok THEN IntOrZero(data.warningCount) ELSE 0,
         findings |-> IF ok THEN [i \in 1..Len(diags) |-> NormalizeDiag(diags[i])]
                      ELSE <<>>]

----------------------------------------------------------------------------
(* parse_junit.  An XML element: its tag, the four count attributes, its   *)
(* testcase children (in document order) and, after them, its element      *)
(* children.  A testcase: file, classname and name attributes ("" when     *)
(* absent) and its child nodes kids, each [tag, msg], in document order.   *)

NoXml ==
    [tag |-> "testsuites", tests |-> Absent, failures |-> Absent,
     errors |-> Absent, skipped |-> Absent, cases |-> <<>>, children |-> <<>>]

XmlFile(st, root) == [st |-> st, root |-> root]

\* ET.parse raises ParseError on text without a root element
XmlParseRaises(f) == f.st \in {"blank", "bad"}

RECURSIVE Concat(_)
Concat(ss) == IF ss = <<>> THEN <<>> ELSE Head(ss) \o Concat(Tail(ss))

RECURSIVE SumSeq(_)
SumSeq(ns) == IF ns = <<>> THEN 0 ELSE Head(ns) + SumSeq(Tail(ns))

\* Element.iter("testcase"): the testcases of the element and of its descendants
RECURSIVE IterCases(_)
IterCases(e) ==
    e.cases \o Concat([i \in 1..Len(e.children) |-> IterCases(e.children[i])])

\* root.findall("testsuite"): direct children only
Suites(root) ==
    IF root.tag = "testsuite" THEN <<root>>
    ELSE SelectSeq(root.children, LAMBDA c : c.tag = "testsuite")

NodeId(c) == IF c.file # "" THEN <<c.file, c.name>> ELSE <<c.classname, c.name>>

\* as FailedOfCase, taking the failure and error children in document order
FailedOfCaseDocOrder(c) ==
    LET nodes == SelectSeq(c.kids, LAMBDA k : k.tag \in {"failure", "error"})
    IN  [i \in 1..Len(nodes) |-> [nodeid |-> NodeId(c), message |-> nodes[i].msg]]

\* list(case.findall("failure")) + list(case.findall("error"))
FailedOfCase(c) ==
    LET nodes == SelectSeq(c.kids, LAMBDA k : k.tag = "failure")
                 \o SelectSeq(c.kids, LAMBDA k : k.tag = "error")
    IN  [i \in 1..Len(nodes) |-> [nodeid |-> NodeId(c), message |-> nodes[i].msg]]

FailedOfSuite(suite) ==
    LET cs == IterCases(suite)
    IN  Concat([i \in 1..Len(cs) |-> FailedOfCase(cs[i])])

SuiteRaises(suite) ==
    \/ IntOrZeroRaises(suite.tests)
    \/ IntOrZeroRaises(suite.failures)
    \/ IntOrZeroRaises(suite.errors)
    \/ IntOrZeroRaises(suite.skipped)

JunitZero == [raised |-> FALSE, tests |-> 0, failures |-> 0, skipped |-> 0,
              failed_tests |-> <<>>]

parse_junit(f) ==
    IF f.st = "missing" THEN JunitZero
    ELSE IF XmlParseRaises(f) THEN [JunitZero EXCEPT !.raised = TRUE]
    ELSE
      LET suites == Suites(f.root)
          n == Len(suites)
      IN  IF \E i \in 1..n : SuiteRaises(suites[i])
          THEN [JunitZero EXCEPT !.raised = TRUE]
          ELSE
            [raised |-> FALSE,
             tests |-> SumSeq([i \in 1..n |-> IntOrZero(suites[i].tests)]),
             failures |-> SumSeq([i \in 1..n |-> IntOrZero(suites[i].failures)
                                                 + IntOrZero(suites[i].errors)]),
             skipped |-> SumSeq([i \in 1..n |-> IntOrZero(suites[i].skipped)]),
             failed_tests |->
                Take(Concat([i \in 1..n |-> FailedOfSuite(suites[i])]), MAX_ITEMS)]

----------------------------------------------------------------------------
(* parse_coverage.  A files entry: [path, percent_covered, missing_lines], *)
(* in the order of the JSON object.                                        *)

\* float(summary.get("percent_covered", 0.0) or 0.0)
FloatOrZeroRaises(x) == ~Falsy(x) /\ x.t = "badstr"

FloatOrZero(x) == IF Falsy(x) \/ x.t = "badstr" THEN 0 ELSE x.v

\* float(totals.get("percent_covered", 0.0)): no "or 0.0" here
FloatOf(x) == IF x.t \in {"int", "numstr"} THEN x.v ELSE 0

CoverageFile(info) ==
    [path |-> info.path,
     percent |-> Round2(FloatOrZero(info.percent_covered)),
     missing_lines |-> info.missing_lines]

\* as parse_coverage, reading absent coverage data as full coverage
parse_coverage_full(f) ==
    LET data == read_json(f)
        isDict == ~ReadJsonRaises(f) /\ data.root = "dict"
        present == isDict /\ f.st = "json"
        n == Len(data.files)
        raised == ReadJsonRaises(f)
                  \/ (isDict /\ (FloatRaises(data.percent_covered)
                                 \/ \E i \in 1..n :
                                       FloatOrZeroRaises(data.files[i].percent_covered)))
        ok == isDict /\ ~raised
    IN  [raised |-> raised,
         total |-> IF present /\ ok THEN Round2(FloatOf(data.percent_covered)) ELSE 10000,
         files |-> IF ok THEN [i \in 1..n |-> CoverageFile(data.files[i])] ELSE <<>>]

parse_coverage(f) ==
    LET data == read_json(f)
        isDict == ~ReadJsonRaises(f) /\ data.root = "dict"
        n == Len(data.files)
        raised == ReadJsonRaises(f)
                  \/ (isDict /\ (FloatRaises(data.percent_covered)
                                 \/ \E i \in 1..n :
                                       FloatOrZeroRaises(data.files[i].percent_covered)))
        ok == isDict /\ ~raised
    IN  [raised |-> raised,
         total |-> IF ok THEN Round2(FloatOf(data.percent_covered)) ELSE 0,
         files |-> IF ok THEN [i \in 1..n |-> CoverageFile(data.files[i])] ELSE <<>>]

----------------------------------------------------------------------------
(* parse_bandit.  A results entry: [filename, has_severity, issue_severity]; *)
(* issue_severity is the text str() gives ("None" for a JSON null).          *)

SEVERITY_ORDER(s) ==
    CASE s = "none" -> 0
      [] s = "low" -> 1
      [] s = "medium" -> 2
      [] s = "high" -> 3
      [] OTHER -> 0

\* str.lower() on the severity texts of the model
Lower(s) ==
    CASE s = "LOW" -> "low"
      [] s = "Low" -> "low"
      [] s = "MEDIUM" -> "medium"
      [] s = "HIGH" -> "high"
      [] s = "High" -> "high"
      [] s = "None" -> "none"
      [] s = "NONE" -> "none"
      [] s = "UNDEFINED" -> "undefined"
      [] OTHER -> s

BanditIssue(i) ==
    [filename |-> i.filename,
     severity |-> IF i.has_severity THEN i.issue_severity ELSE "LOW"]

\* as BanditBlocking, matching only the severity equal to the threshold
BanditBlockingExact(issues, fail_on) ==
    LET threshold == SEVERITY_ORDER(fail_on)
    IN  IF threshold > 0
        THEN \E k \in 1..Len(issues) :
                SEVERITY_ORDER(Lower(issues[k].severity)) = threshold
        ELSE FALSE

\* as BanditBlocking, with a strict comparison
BanditBlockingStrict(issues, fail_on) ==
    LET threshold == SEVERITY_ORDER(fail_on)
    IN  IF threshold > 0
        THEN \E k \in 1..Len(issues) :
                SEVERITY_ORDER(Lower(issues[k].severity)) > threshold
        ELSE FALSE

BanditBlocking(issues, fail_on) ==
    LET threshold == SEVERITY_ORDER(fail_on)
    IN  IF threshold > 0
        THEN \E k \in 1..Len(issues) :
                SEVERITY_ORDER(Lower(issues[k].severity)) >= threshold
        ELSE FALSE

\* as parse_bandit, keeping only the issues at or above the threshold
parse_bandit_filtered(f, fail_on) ==
    LET data == read_json(f)
        isDict == ~ReadJsonRaises(f) /\ data.root = "dict"
        first == Take(data.results, MAX_ITEMS)
        all == IF isDict THEN [k \in 1..Len(first) |-> BanditIssue(first[k])]
               ELSE <<>>
        issues == SelectSeq(all, LAMBDA i :
                      SEVERITY_ORDER(Lower(i.severity)) >= SEVERITY_ORDER(fail_on))
    IN  [raised |-> ReadJsonRaises(f),
         issues |-> issues,
         blocking |-> isDict /\ BanditBlocking(issues, fail_on)]

parse_bandit(f, fail_on) ==
    LET data == read_json(f)
        isDict == ~ReadJsonRaises(f) /\ data.root = "dict"
        first == Take(data.results, MAX_ITEMS)
        issues == IF isDict THEN [k \in 1..Len(first) |-> BanditIssue(first[k])]
                  ELSE <<>>
    IN  [raised |-> ReadJsonRaises(f),
         issues |-> issues,
         blocking |-> isDict /\ BanditBlocking(issues, fail_on)]

----------------------------------------------------------------------------
(* parse_command_results.  The log: [st, lines], a line being the sequence  *)
(* of texts raw.split("\t", 4) gives.                                       *)

DecimalTexts == {"0", "1", "2"}

\* int(exit_code) on the texts of the model: ValueError unless a numeral
ParseIntRaises(text) == text \notin DecimalTexts

ParseInt(text) ==
    CASE text = "1" -> 1
      [] text = "2" -> 2
      [] OTHER -> 0

CommandResult(parts) ==
    [name |-> parts[1], command |-> parts[2], exit_code |-> ParseInt(parts[3]),
     status |-> parts[4]]

parse_command_results(f) ==
    IF f.st \in {"missing", "blank"} THEN [raised |-> FALSE, out |-> <<>>]
    ELSE
      LET rows == SelectSeq(f.lines, LAMBDA parts : Len(parts) >= 4)
          raised == \E i \in 1..Len(rows) : ParseIntRaises(rows[i][3])
      IN  [raised |-> raised,
           out |-> IF raised THEN <<>>
                   ELSE [i \in 1..Len(rows) |-> CommandResult(rows[i])]]

----------------------------------------------------------------------------
(* main: aggregation and gates *)

RECURSIVE InsertByPercent(_, _)
InsertByPercent(s, x) ==
    IF s = <<>> THEN <<x>>
    ELSE IF x.percent < Head(s).percent THEN <<x>> \o s
    ELSE <<Head(s)>> \o InsertByPercent(Tail(s), x)

\* sorted(s, key=lambda x: x.percent): stable, ascending
RECURSIVE SortedByPercent(_)
SortedByPercent(s) ==
    IF s = <<>> THEN <<>>
    ELSE InsertByPercent(SortedByPercent(SubSeq(s, 1, Len(s) - 1)), s[Len(s)])

\* f.percent < args.coverage_threshold, percent in hundredths, threshold in thousandths
Below(percent, threshold) == percent * 10 < threshold

\* as BelowThreshold, with the cap applied before the sort
BelowThresholdCapFirst(files, threshold) ==
    SortedByPercent(Take(SelectSeq(files, LAMBDA f : Below(f.percent, threshold)),
                         MAX_ITEMS))

BelowThreshold(files, threshold) ==
    Take(SortedByPercent(SelectSeq(files, LAMBDA f : Below(f.percent, threshold))),
         MAX_ITEMS)

CoreTools == {"ruff", "pyright", "pytest"}

CommandFailures(results) ==
    SelectSeq(results, LAMBDA c : c.name \in CoreTools /\ c.status = "fail")

Max(a, b) == IF a > b THEN a ELSE b

Summary(ruff, pr, ju, cv, bd) ==
    [ruff_issues |-> Len(ruff),
     pyright_errors |-> pr.errors,
     pyright_warnings |-> pr.warnings,
     tests_total |-> ju.tests,
     tests_passed |-> Max(ju.tests - ju.failures - ju.skipped, 0),
     tests_failed |-> ju.failures,
     tests_skipped |-> ju.skipped,
     coverage |-> cv.total,
     bandit_issues |-> Len(bd.issues),
     bandit_blocking |-> bd.blocking]

\* as QualityBlocking, with type-check warnings counted as well
QualityBlockingWarnings(a, sm, failures) ==
    /\ a.fail_on_quality = "any"
    /\ \/ sm.ruff_issues > 0
       \/ sm.pyright_errors > 0
       \/ sm.pyright_warnings > 0
       \/ sm.tests_failed > 0
       \/ Below(sm.coverage, a.coverage_threshold)
       \/ Len(failures) > 0

QualityBlocking(a, sm, failures) ==
    /\ a.fail_on_quality = "any"
    /\ \/ sm.ruff_issues > 0
       \/ sm.pyright_errors > 0
       \/ sm.tests_failed > 0
       \/ Below(sm.coverage, a.coverage_threshold)
       \/ Len(failures) > 0

\* as Blocking, with the security gate left out
BlockingQualityOnly(quality_blocking, sm) == quality_blocking

Blocking(quality_blocking, sm) == quality_blocking \/ sm.bandit_blocking

Gates(a, sm, failures) ==
    LET q == QualityBlocking(a, sm, failures)
    IN  [quality_blocking |-> q,
         security_blocking |-> sm.bandit_blocking,
         blocking |-> Blocking(q, sm)]

----------------------------------------------------------------------------
(* The output writers *)

ReportContext ==
    [summary |-> summary,
     coverage_threshold |-> args.coverage_threshold,
     quality_blocking |-> gates.quality_blocking,
     security_blocking |-> summary.bandit_blocking,
     blocking |-> gates.blocking,
     ruff_findings |-> Take(ruff_findings, MAX_ITEMS),
     pyright_findings |-> pyright.findings,
     failed_tests |-> junit.failed_tests,
     below_threshold |-> below_threshold,
     bandit_issues |-> bandit.issues,
     command_results |-> command_results]

SummaryPayload ==
    [summary |-> summary,
     gates |-> [quality_blocking |-> gates.quality_blocking,
                security_blocking |-> summary.bandit_blocking,
                blocking |-> gates.blocking],
     checks |->
        [ruff |-> [issues |-> Len(ruff_findings),
                   sample |-> Take(ruff_findings, MAX_ITEMS)],
         pyright |-> [errors |-> pyright.errors, warnings |-> pyright.warnings,
                      diagnostics |-> pyright.findings],
         tests |-> [total |-> junit.tests, passed |-> summary.tests_passed,
                    failed |-> junit.failures, skipped |-> junit.skipped,
                    failures |-> junit.failed_tests],
         coverage |-> [global |-> cov.total, threshold |-> args.coverage_threshold,
                       below_threshold |-> below_threshold],
         bandit |-> [issues |-> Len(bandit.issues), blocking |-> bandit.blocking,
                     findings |-> bandit.issues]],
     commands |-> command_results,
     command_failures |-> command_failures]

\* f"blocking={'true' if blocking else 'false'}"
BoolText(b) == IF b THEN "true" ELSE "false"

OutputLines(sm, blocking) ==
    [ruff_issues |-> sm.ruff_issues,
     pyright_errors |-> sm.pyright_errors,
     pyright_warnings |-> sm.pyright_warnings,
     tests_failed |-> sm.tests_failed,
     coverage |-> sm.coverage,
     bandit_issues |-> sm.bandit_issues,
     blocking |-> BoolText(blocking),
     report_file |-> "output",
     summary_file |-> "summary"]

----------------------------------------------------------------------------
(* main, one action per statement group.  An uncaught exception ends the   *)
(* interpreter with status 1 and nothing after the raising call runs.      *)

Running == -1

Fatal(fn) ==
    /\ pc' = "fatal"
    /\ raised_in' = fn
    /\ exit_status' = 1

Goto(next) ==
    /\ pc' = next
    /\ UNCHANGED <<raised_in, exit_status>>

ParseRuff ==
    /\ pc = "parse_ruff"
    /\ LET r == parse_ruff(fs.ruff)
       IN  IF r.raised
           THEN Fatal("parse_ruff") /\ UNCHANGED ruff_findings
           ELSE Goto("parse_pyright") /\ ruff_findings' = r.findings
    /\ UNCHANGED <<args, fs, pyright, junit, cov, below_threshold, bandit,
                   command_results, command_failures, summary, gates, outs>>

ParsePyright ==
    /\ pc = "parse_pyright"
    /\ LET r == parse_pyright(fs.pyright)
       IN  IF r.raised
           THEN Fatal("parse_pyright") /\ UNCHANGED pyright
           ELSE Goto("parse_junit") /\ pyright' = r
    /\ UNCHANGED <<args, fs, ruff_findings, junit, cov, below_threshold, bandit,
                   command_results, command_failures, summary, gates, outs>>

ParseJunit ==
    /\ pc = "parse_junit"
    /\ LET r == parse_junit(fs.junit)
       IN  IF r.raised
           THEN Fatal("parse_junit") /\ UNCHANGED junit
           ELSE Goto("parse_coverage") /\ junit' = r
    /\ UNCHANGED <<args, fs, ruff_findings, pyright, cov, below_threshold, bandit,
                   command_results, command_failures, summary, gates, outs>>

ParseCoverage ==
    /\ pc = "parse_coverage"
    /\ LET r == parse_coverage(fs.coverage)
       IN  IF r.raised
           THEN Fatal("parse_coverage") /\ UNCHANGED <<cov, below_threshold>>
           ELSE /\ Goto("parse_bandit")
                /\ cov' = r
                /\ below_threshold' = BelowThreshold(r.files, args.coverage_threshold)
    /\ UNCHANGED <<args, fs, ruff_findings, pyright, junit, bandit,
                   command_results, command_failures, summary, gates, outs>>

ParseBandit ==
    /\ pc = "parse_bandit"
    /\ LET r == parse_bandit(fs.bandit, args.fail_on_security)
       IN  IF r.raised
           THEN Fatal("parse_bandit") /\ UNCHANGED bandit
           ELSE Goto("parse_command_results") /\ bandit' = r
    /\ UNCHANGED <<args, fs, ruff_findings, pyright, junit, cov, below_threshold,
                   command_results, command_failures, summary, gates, outs>>

ParseCommandResults ==
    /\ pc = "parse_command_results"
    /\ LET r == parse_command_results(fs.commands)
       IN  IF r.raised
           THEN Fatal("parse_command_results")
                /\ UNCHANGED <<command_results, command_failures>>
           ELSE /\ Goto("aggregate")
                /\ command_results' = r.out
                /\ command_failures' = CommandFailures(r.out)
    /\ UNCHANGED <<args, fs, ruff_findings, pyright, junit, cov, below_threshold,
                   bandit, summary, gates, outs>>

Aggregate ==
    /\ pc = "aggregate"
    /\ LET sm == Summary(ruff_findings, pyright, junit, cov, bandit)
       IN  /\ summary' = sm
           /\ gates' = Gates(args, sm, command_failures)
    /\ Goto("render_report")
    /\ UNCHANGED <<args, fs, ruff_findings, pyright, junit, cov, below_threshold,
                   bandit, command_results, command_failures, outs>>

\* as RenderReport, but already run before the command-status log is parsed
RenderReportEarly ==
    /\ pc \in {"parse_command_results", "render_report"}
    /\ report_file = <<>>
    /\ report_file' = <<ReportContext>>
    /\ Goto(IF pc = "render_report" THEN "write_summary_json" ELSE pc)
    /\ UNCHANGED <<args, fs, locals, summary_file, outputs_file>>

RenderReport ==
    /\ pc = "render_report"
    /\ report_file' = <<ReportContext>>
    /\ Goto("write_summary_json")
    /\ UNCHANGED <<args, fs, locals, summary_file, outputs_file>>

WriteSummaryJson ==
    /\ pc = "write_summary_json"
    /\ summary_file' = <<SummaryPayload>>
    /\ Goto("write_outputs")
    /\ UNCHANGED <<args, fs, locals, report_file, outputs_file>>

WriteOutputs ==
    /\ pc = "write_outputs"
    /\ outputs_file' = Append(outputs_file, OutputLines(summary, gates.blocking))
    /\ Goto("exit")
    /\ UNCHANGED <<args, fs, locals, report_file, summary_file>>

ExitStatus(blocking) == IF blocking THEN 1 ELSE 0

Exit ==
    /\ pc = "exit"
    /\ pc' = "done"
    /\ exit_status' = ExitStatus(gates.blocking)
    /\ UNCHANGED <<args, fs, locals, outs, raised_in>>

\* the Summary main builds (lines 266-294), as a function of the artifacts and
\* the policy
RunSummary(files, a) ==
    Summary(parse_ruff(files.ruff).findings, parse_pyright(files.pyright),
            parse_junit(files.junit), parse_coverage(files.coverage),
            parse_bandit(files.bandit, a.fail_on_security))

Next ==
    \/ ParseRuff
    \/ ParsePyright
    \/ ParseJunit
    \/ ParseCoverage
    \/ ParseBandit
    \/ ParseCommandResults
    \/ Aggregate
    \/ RenderReport
    \/ WriteSummaryJson
    \/ WriteOutputs
    \/ Exit

----------------------------------------------------------------------------
(* Artifacts *)

MissingJson == JsonFile("missing", "dict")
BlankJson == JsonFile("blank", "dict")
BadJson == JsonFile("bad", "dict")

RuffList(n) == [JsonFile("json", "list") EXCEPT !.items = Iota(n)]

Diagnostics(n) == [i \in 1..n |-> [file |-> i, line |-> i - 1]]

PyrightDoc(e, w, n) ==
    [JsonFile("json", "dict") EXCEPT
        !.errorCount = e, !.warningCount = w, !.generalDiagnostics = Diagnostics(n)]

CoverageDoc(total, files) ==
    [JsonFile("json", "dict") EXCEPT !.percent_covered = total, !.files = files]

\* files entries with the given raw percents, in this order
CoverageEntries(raws) ==
    [i \in 1..Len(raws) |->
        [path |-> i, percent_covered |-> raws[i], missing_lines |-> <<i>>]]

BanditDoc(results) == [JsonFile("json", "dict") EXCEPT !.results = results]

\* results entries with the given severity texts; "" stands for an absent key
BanditEntries(sevs) ==
    [i \in 1..Len(sevs) |->
        [filename |-> i, has_severity |-> sevs[i] # "", issue_severity |-> sevs[i]]]

Suite(tests, failures, errors, skipped, cases) ==
    [tag |-> "testsuite", tests |-> tests, failures |-> failures,
     errors |-> errors, skipped |-> skipped, cases |-> cases, children |-> <<>>]

SuitesRoot(children) == [NoXml EXCEPT !.children = children]

Case(name, kids) ==
    [file |-> "tests/test_sample.py", classname |-> "tests.test_sample",
     name |-> name, kids |-> kids]

Node(tag, msg) == [tag |-> tag, msg |-> msg]

\* n testcases with one failure each
FailingCases(n) == [i \in 1..n |-> Case(i, <<Node("failure", i)>>)]

MissingXml == XmlFile("missing", NoXml)
BlankXml == XmlFile("blank", NoXml)
BadXml == XmlFile("bad", NoXml)

CommandsFile(st, lines) == [st |-> st, lines |-> lines]

MissingLog == CommandsFile("missing", <<>>)
BlankLog == CommandsFile("blank", <<>>)

----------------------------------------------------------------------------
(* Initial states: the command line and the artifacts of one run *)

FailOnQuality == {"none", "any"}
FailOnSecurity == {"none", "low", "medium", "high"}

DefaultThreshold == 80000

Args(q, s, t) == [fail_on_quality |-> q, fail_on_security |-> s, coverage_threshold |-> t]

NoFiles ==
    [ruff |-> MissingJson, pyright |-> MissingJson, junit |-> MissingXml,
     coverage |-> MissingJson, bandit |-> MissingJson, commands |-> MissingLog]

ZeroSummary ==
    Summary(<<>>, [errors |-> 0, warnings |-> 0], JunitZero, [total |-> 0],
            [issues |-> <<>>, blocking |-> FALSE])

Start(a, files) ==
    /\ pc = "parse_ruff"
    /\ args = a
    /\ fs = files
    /\ ruff_findings = <<>>
    /\ pyright = [raised |-> FALSE, errors |-> 0, warnings |-> 0, findings |-> <<>>]
    /\ junit = JunitZero
    /\ cov = [raised |-> FALSE, total |-> 0, files |-> <<>>]
    /\ below_threshold = <<>>
    /\ bandit = [raised |-> FALSE, issues |-> <<>>, blocking |-> FALSE]
    /\ command_results = <<>>
    /\ command_failures = <<>>
    /\ summary = ZeroSummary
    /\ gates = [quality_blocking |-> FALSE, security_blocking |-> FALSE,
                blocking |-> FALSE]
    /\ report_file = <<>>
    /\ summary_file = <<>>
    /\ outputs_file = <<>>
    /\ exit_status = Running
    /\ raised_in = ""

\* the artifacts of tests/unit/test_quality_builder.py
FixtureRuff == RuffList(1)
FixturePyright == PyrightDoc(Int_(1), Int_(1), 2)
FixtureJunit ==
    XmlFile("xml", SuitesRoot(<<
        Suite(NumStr(3), NumStr(1), NumStr(0), NumStr(1),
              <<Case("test_ok", <<>>),
                Case("test_fail", <<Node("failure", "assert 1 == 2")>>),
                Case("test_skip", <<Node("skipped", "skip reason")>>)>>)>>))
FixtureCoverage == CoverageDoc(Int_(66670), CoverageEntries(<<Int_(55000), Int_(95000)>>))
FixtureBandit == BanditDoc(BanditEntries(<<"MEDIUM">>))
FixtureCommands ==
    CommandsFile("text", <<
        <<"ruff", "ruff check", "1", "fail", "ruff.json">>,
        <<"pyright", "pyright src", "1", "fail", "pyright.json">>,
        <<"pytest", "pytest tests", "1", "fail", "junit.xml">>,
        <<"bandit", "bandit -r src", "0", "pass", "bandit.json">>>>)

Long == MAX_ITEMS + Extra

RuffMain == {MissingJson, FixtureRuff, RuffList(Long)}

PyrightMain == {FixturePyright, PyrightDoc(Absent, Int_(2), Long)}

JunitMain ==
    {FixtureJunit,
     XmlFile("xml", Suite(NumStr(0), NumStr(0), Absent, Absent, FailingCases(Long)))}

CoverageMain ==
    {MissingJson, FixtureCoverage,
     CoverageDoc(Int_(95000),
                 CoverageEntries([i \in 1..(Long + 1) |->
                                     IF i = 1 THEN Int_(80000) ELSE Int_((Long + 1 - i) * 1000)]))}

BanditMain ==
    {MissingJson, FixtureBandit,
     BanditDoc(BanditEntries(Pad("LOW", MAX_ITEMS) \o Pad("HIGH", Extra)))}

CommandsMain ==
    {MissingLog, FixtureCommands,
     CommandsFile("text", <<<<"bandit", "bandit -r src", "1", "fail">>,
                            <<"pytest", "pytest tests", "1", "pass", "junit.xml">>,
                            <<"ruff", "fail">>>>),
     CommandsFile("text", Pad(<<"pytest", "pytest tests", "2", "fail">>, Long))}

FixtureFiles ==
    [ruff |-> FixtureRuff, pyright |-> FixturePyright, junit |-> FixtureJunit,
     coverage |-> FixtureCoverage, bandit |-> FixtureBandit,
     commands |-> FixtureCommands]

\* artifacts on which a parser raises
Malformed ==
    [ruff |-> {BadJson},
     pyright |-> {BadJson, PyrightDoc(BadStr, Absent, 0)},
     junit |-> {BadXml, BlankXml,
                XmlFile("xml", Suite(BadStr, Absent, Absent, Absent, <<>>))},
     coverage |-> {BadJson, CoverageDoc(Null, <<>>)},
     bandit |-> {BadJson},
     commands |-> {CommandsFile("text", <<<<"ruff", "ruff check", "", "fail">>>>),
                   CommandsFile("text", <<<<"ruff", "ruff check", "abc", "fail">>>>)}]

ArtifactNames == {"ruff", "pyright", "junit", "coverage", "bandit", "commands"}

Thresholds == {0, DefaultThreshold}

Policies ==
    {Args(q, s, t) : q \in FailOnQuality, s \in FailOnSecurity, t \in Thresholds}

Init ==
    \E a \in Policies :
        \/ \E f1 \in RuffMain, f2 \in PyrightMain, f3 \in JunitMain,
              f4 \in CoverageMain, f5 \in BanditMain, f6 \in CommandsMain :
                Start(a, [ruff |-> f1, pyright |-> f2, junit |-> f3,
                          coverage |-> f4, bandit |-> f5, commands |-> f6])
        \/ Start(a, NoFiles)
        \/ \E base \in {NoFiles, FixtureFiles}, k \in ArtifactNames :
              \E bad \in Malformed[k] : Start(a, [base EXCEPT ![k] = bad])

Spec == Init /\ [][Next]_vars

----------------------------------------------------------------------------
(* Runs of main over one artifact drawn from a wide family, the other     *)
(* artifacts being absent.                                                 *)

DefaultArgs == Args("any", "none", DefaultThreshold)

JsonCounts ==
    {Absent, Null, EmptyStr, BadStr}
        \cup {Int_(n) : n \in 0..MaxCount} \cup {NumStr(n) : n \in 0..MaxCount}

XmlCounts == {Absent, EmptyStr, BadStr} \cup {NumStr(n) : n \in 1..MaxCount}

RuffInputs ==
    {MissingJson, BlankJson, BadJson, JsonFile("json", "dict"), JsonFile("json", "other")}
        \cup {RuffList(n) : n \in 0..MaxCount}

PyrightInputs ==
    {MissingJson, BlankJson, BadJson, JsonFile("json", "list")}
        \cup {PyrightDoc(e, w, 1) : e \in JsonCounts, w \in JsonCounts}

OneFailure(name) == <<Case(name, <<Node("failure", "boom")>>)>>

JunitInputs ==
    {MissingXml, BlankXml, BadXml}
        \cup {XmlFile("xml", Suite(a, b, c, d, OneFailure("t"))) :
                a \in XmlCounts, b \in XmlCounts, c \in XmlCounts, d \in XmlCounts}
        \cup {XmlFile("xml", SuitesRoot(<<Suite(a, b, Absent, Absent, OneFailure("t1")),
                                          Suite(NumStr(1), Absent, c, d, OneFailure("t2"))>>)) :
                a \in XmlCounts, b \in XmlCounts, c \in XmlCounts, d \in XmlCounts}

CoverageInputs ==
    {MissingJson, BlankJson, BadJson, JsonFile("json", "list")}
        \cup {CoverageDoc(t, CoverageEntries(<<p>>)) :
                t \in {Absent, Null, BadStr, Int_(66670), NumStr(95000)},
                p \in {Absent, Null, BadStr, Int_(55000)}}

BanditInputs ==
    {MissingJson, BlankJson, BadJson, JsonFile("json", "list"), FixtureBandit}

LogLines ==
    {<<"ruff", "ruff check", "1", "fail">>, <<"pytest", "pytest tests", "0", "pass", "x">>,
     <<"ruff", "ruff check", "abc", "fail">>, <<"bandit", "fail">>}

CommandsInputs ==
    {MissingLog, BlankLog} \cup {CommandsFile("text", ls) : ls \in SeqsUpTo(LogLines, 2)}

ParserInputs ==
    [ruff |-> RuffInputs, pyright |-> PyrightInputs, junit |-> JunitInputs,
     coverage |-> CoverageInputs, bandit |-> BanditInputs, commands |-> CommandsInputs]

InitParsers ==
    \E k \in ArtifactNames :
        \E f \in ParserInputs[k] : Start(DefaultArgs, [NoFiles EXCEPT ![k] = f])

SpecParsers == InitParsers /\ [][Next]_vars

\* security results: a run of equal entries up to the cap, then an arbitrary tail
PadLengths == {0, MAX_ITEMS - 1, MAX_ITEMS}

SeverityTexts == {"", "LOW", "MEDIUM", "HIGH", "high", "None", "UNDEFINED"}

SecurityResults ==
    {BanditEntries(Pad(p, n) \o tail) :
        p \in {"LOW", "UNDEFINED"}, n \in PadLengths,
        tail \in SeqsUpTo(SeverityTexts, MaxTail)}

InitBandit ==
    \E q \in FailOnQuality, s \in FailOnSecurity, r \in SecurityResults :
        Start(Args(q, s, DefaultThreshold), [NoFiles EXCEPT !.bandit = BanditDoc(r)])

SpecBandit == InitBandit /\ [][Next]_vars

\* coverage files: a run of equal percents up to the cap, then an arbitrary tail
RawPercents == {Int_(55000), Int_(79994), Int_(79996), Int_(80000), NumStr(95000), Null}

CoverageFiles ==
    {CoverageEntries(Pad(Int_(p), n) \o tail) :
        p \in {60000, 90000}, n \in PadLengths, tail \in SeqsUpTo(RawPercents, MaxTail)}

CoverageThresholds == {0, 79998, DefaultThreshold}

InitCoverage ==
    \E t \in CoverageThresholds, c \in CoverageFiles :
        Start(Args("any", "none", t),
              [NoFiles EXCEPT !.coverage = CoverageDoc(Int_(79996), c)])

SpecCoverage == InitCoverage /\ [][Next]_vars

----------------------------------------------------------------------------
(* Properties *)

Aggregated == pc \in {"render_report", "write_summary_json", "write_outputs", "exit", "done"}

\* positions of the command-status entries of a core tool whose status is "fail"
CoreFailures ==
    {i \in 1..Len(command_results) :
        /\ command_results[i].name \in {"ruff", "pyright", "pytest"}
        /\ command_results[i].status = "fail"}

\* C1: once main has aggregated, quality_blocking is true exactly when
\* fail_on_quality is "any" and there is a lint issue, a type-check error, a
\* failed test, a global coverage below the threshold or a command failure;
\* command_failures holds exactly the entries of a core tool with status "fail".
\* Nothing else (warnings, security findings, other entries, exit codes) enters.
C1_QualityBlocking ==
    Aggregated =>
        /\ Len(command_failures) = Cardinality(CoreFailures)
        /\ \A j \in 1..Len(command_failures) :
              \E i \in CoreFailures : command_failures[j] = command_results[i]
        /\ gates.quality_blocking <=>
              /\ args.fail_on_quality = "any"
              /\ \/ Len(ruff_findings) > 0
                 \/ pyright.errors > 0
                 \/ junit.failures > 0
                 \/ cov.total * 10 < args.coverage_threshold
                 \/ CoreFailures # {}

\* a run blocked by a failed core command alone, with warnings and security
\* findings present
C1_Witness ==
    /\ pc = "done"
    /\ args.fail_on_quality = "any"
    /\ gates.quality_blocking
    /\ Len(ruff_findings) = 0 /\ pyright.errors = 0 /\ junit.failures = 0
    /\ cov.total * 10 >= args.coverage_threshold
    /\ pyright.warnings > 0
    /\ Len(bandit.issues) > 0
    /\ CoreFailures # {}
    /\ \E i \in 1..Len(command_results) : command_results[i].name = "bandit"

\* C2: a run that ends without a fatal error has blocking = quality_blocking or
\* security_blocking, exits 1 if blocking and 0 if not, and has written that
\* blocking value in the gates of the JSON summary and, as true/false, in the
\* outputs file.
C2_BlockingAndExit ==
    pc = "done" =>
        /\ raised_in = ""
        /\ gates.blocking <=> (gates.quality_blocking \/ bandit.blocking)
        /\ exit_status = (IF gates.blocking THEN 1 ELSE 0)
        /\ Len(summary_file) = 1
        /\ summary_file[1].gates.blocking = gates.blocking
        /\ Len(outputs_file) = 1
        /\ outputs_file[1].blocking = (IF gates.blocking THEN "true" ELSE "false")

\* a run blocked by the security gate alone
C2_Witness ==
    /\ pc = "done"
    /\ ~gates.quality_blocking
    /\ bandit.blocking
    /\ exit_status = 1

BanditParsed ==
    pc \in {"parse_command_results", "aggregate", "render_report",
            "write_summary_json", "write_outputs", "exit", "done"}

\* the scale none(0) < low(1) < medium(2) < high(3), read without regard to
\* case, any other text being 0
Ordinal(text) ==
    CASE text \in {"low", "LOW", "Low"} -> 1
      [] text \in {"medium", "MEDIUM", "Medium"} -> 2
      [] text \in {"high", "HIGH", "High"} -> 3
      [] OTHER -> 0

\* the severity text of the i-th result entry of the security artifact
SeverityAt(i) ==
    IF fs.bandit.results[i].has_severity
    THEN fs.bandit.results[i].issue_severity ELSE "LOW"

FirstResults ==
    1..(IF Len(fs.bandit.results) < 50 THEN Len(fs.bandit.results) ELSE 50)

\* C3: the security parser's blocking flag is false at threshold "none"; at any
\* other threshold it is true exactly when one of the first 50 result entries
\* has a severity whose ordinal is at least the threshold's.
C3_SecurityBlocking ==
    BanditParsed =>
        /\ args.fail_on_security = "none" => ~bandit.blocking
        /\ args.fail_on_security # "none" =>
              (bandit.blocking <=>
                  \E i \in FirstResults :
                      Ordinal(SeverityAt(i)) >= Ordinal(args.fail_on_security))

\* more than 50 results, the only ones at the threshold past the 50th: no block
C3_Witness ==
    /\ BanditParsed
    /\ args.fail_on_security = "high"
    /\ Len(fs.bandit.results) > 50
    /\ \E i \in 51..Len(fs.bandit.results) : Ordinal(SeverityAt(i)) = 3
    /\ ~bandit.blocking

\* C4 as stated: blocking at threshold T implies blocking at every T' <= T,
\* "none" included.
C4_MonotonicDownToNone ==
    (BanditParsed /\ bandit.blocking) =>
        \A t \in FailOnSecurity :
            Ordinal(t) <= Ordinal(args.fail_on_security) =>
                parse_bandit(fs.bandit, t).blocking

\* C4, amended: blocking at threshold T implies blocking at every threshold T'
\* with low <= T' <= T; at "none" the flag is false.
C4_MonotonicAboveNone ==
    (BanditParsed /\ bandit.blocking) =>
        /\ \A t \in FailOnSecurity :
              (1 <= Ordinal(t) /\ Ordinal(t) <= Ordinal(args.fail_on_security)) =>
                  parse_bandit(fs.bandit, t).blocking
        /\ ~parse_bandit(fs.bandit, "none").blocking

\* blocking at "high", with lower thresholds to compare with
C4_Witness ==
    /\ BanditParsed
    /\ bandit.blocking
    /\ args.fail_on_security = "high"

Stages ==
    <<"parse_ruff", "parse_pyright", "parse_junit", "parse_coverage", "parse_bandit",
      "parse_command_results", "aggregate", "render_report", "write_summary_json",
      "write_outputs", "exit", "done">>

StageOf(p) == CHOOSE i \in 1..Len(Stages) : Stages[i] = p

\* the call of parser p has returned (an exception in a later call included)
Returned(p) == StageOf(IF pc = "fatal" THEN raised_in ELSE pc) > StageOf(p)

Absent_(f) == f.st \in {"missing", "blank"}

\* C5: a parser whose input file is missing or empty returns its zero value and
\* does not raise.
C5_MissingOrEmptyIsZero ==
    /\ Absent_(fs.ruff) =>
          /\ raised_in # "parse_ruff"
          /\ Returned("parse_ruff") => ruff_findings = <<>>
    /\ Absent_(fs.pyright) =>
          /\ raised_in # "parse_pyright"
          /\ Returned("parse_pyright") =>
                (pyright.errors = 0 /\ pyright.warnings = 0 /\ pyright.findings = <<>>)
    /\ Absent_(fs.junit) =>
          /\ raised_in # "parse_junit"
          /\ Returned("parse_junit") =>
                (junit.tests = 0 /\ junit.failures = 0 /\ junit.skipped = 0
                 /\ junit.failed_tests = <<>>)
    /\ Absent_(fs.coverage) =>
          /\ raised_in # "parse_coverage"
          /\ Returned("parse_coverage") => (cov.total = 0 /\ cov.files = <<>>)
    /\ Absent_(fs.bandit) =>
          /\ raised_in # "parse_bandit"
          /\ Returned("parse_bandit") => (bandit.issues = <<>> /\ ~bandit.blocking)
    /\ Absent_(fs.commands) =>
          /\ raised_in # "parse_command_results"
          /\ Returned("parse_command_results") => command_results = <<>>

\* what holds of the code: C5 for every parser and file state but the empty
\* test-results file
C5_ExceptEmptyXml == fs.junit.st # "blank" => C5_MissingOrEmptyIsZero

\* the number a count field denotes, 0 when it is absent or not a number
NumericOrZero(x) == IF x.t \in {"int", "numstr"} THEN x.v ELSE 0

\* C10: absent or non-numeric count fields are read as 0 and never make the
\* type-check parser or the test-results parser fail.
C10_CountsReadAsZero ==
    /\ (fs.pyright.st = "json" /\ fs.pyright.root = "dict") =>
          /\ raised_in # "parse_pyright"
          /\ Returned("parse_pyright") =>
                /\ pyright.errors = NumericOrZero(fs.pyright.errorCount)
                /\ pyright.warnings = NumericOrZero(fs.pyright.warningCount)
    /\ fs.junit.st = "xml" =>
          /\ raised_in # "parse_junit"
          /\ Returned("parse_junit") =>
                LET ss == Suites(fs.junit.root)
                IN  /\ junit.tests =
                          SumSeq([i \in 1..Len(ss) |-> NumericOrZero(ss[i].tests)])
                    /\ junit.failures =
                          SumSeq([i \in 1..Len(ss) |->
                                    NumericOrZero(ss[i].failures)
                                    + NumericOrZero(ss[i].errors)])
                    /\ junit.skipped =
                          SumSeq([i \in 1..Len(ss) |-> NumericOrZero(ss[i].skipped)])

NonNumeric(x) == x.t = "badstr"

\* what holds of the code: C10 for every count field that is absent, null, empty
\* or numeric
C10_ExceptNonNumericText ==
    (/\ ~NonNumeric(fs.pyright.errorCount) /\ ~NonNumeric(fs.pyright.warningCount)
     /\ \A i \in 1..Len(Suites(fs.junit.root)) :
           LET u == Suites(fs.junit.root)[i]
           IN  ~NonNumeric(u.tests) /\ ~NonNumeric(u.failures)
               /\ ~NonNumeric(u.errors) /\ ~NonNumeric(u.skipped))
        => C10_CountsReadAsZero

Parsing ==
    pc \in {"parse_ruff", "parse_pyright", "parse_junit", "parse_coverage",
            "parse_bandit", "parse_command_results"}

NothingWritten == report_file = <<>> /\ summary_file = <<>> /\ outputs_file = <<>>

\* C6: output is written after all parsing.  While a parser has still to run,
\* and in a run a parser ended with an exception, none of the three output
\* files is written; a run without exception has written all three when it
\* exits, blocking or not.
C6_OutputsAfterParsing ==
    /\ Parsing => NothingWritten
    /\ pc = "fatal" =>
          /\ raised_in \in {"parse_ruff", "parse_pyright", "parse_junit",
                            "parse_coverage", "parse_bandit", "parse_command_results"}
          /\ NothingWritten
    /\ pc # "fatal" => raised_in = ""
    /\ (pc # "fatal" /\ exit_status # Running) =>
          /\ pc = "done"
          /\ exit_status = (IF gates.blocking THEN 1 ELSE 0)
          /\ Len(report_file) = 1 /\ Len(summary_file) = 1 /\ Len(outputs_file) = 1

\* the last parser raises after the five before it returned findings
C6_Witness ==
    /\ pc = "fatal"
    /\ raised_in = "parse_command_results"
    /\ Len(ruff_findings) > 0
    /\ Len(bandit.issues) > 0
    /\ NothingWritten

Counters(sm) ==
    <<sm.ruff_issues, sm.pyright_errors, sm.pyright_warnings, sm.tests_total,
      sm.tests_passed, sm.tests_failed, sm.tests_skipped, sm.coverage,
      sm.bandit_issues>>

\* C7: the Summary counters written by a run are those of the run over the same
\* artifacts under every other policy.
C7_CountsIndependentOfPolicy ==
    pc = "done" =>
        \A a \in Policies :
            /\ Counters(summary_file[1].summary) = Counters(RunSummary(fs, a))
            /\ Counters(summary) = Counters(RunSummary(fs, a))

\* the fixture of the tests under the policy none/none: not blocking, the counts
\* of the blocking run
C7_Witness ==
    /\ pc = "done"
    /\ fs = FixtureFiles
    /\ args.fail_on_quality = "none" /\ args.fail_on_security = "none"
    /\ ~gates.blocking /\ exit_status = 0
    /\ summary.ruff_issues = 1 /\ summary.bandit_issues = 1 /\ summary.coverage = 6667
    /\ Counters(summary) =
          Counters(RunSummary(fs, Args("any", "medium", DefaultThreshold)))

MinOf(a, b) == IF a < b THEN a ELSE b

\* the lists of the artifacts, before any parsing
SourceLint == IF fs.ruff.st = "json" /\ fs.ruff.root = "list" THEN fs.ruff.items ELSE <<>>

SourceDiagnostics ==
    IF fs.pyright.st = "json" /\ fs.pyright.root = "dict"
    THEN fs.pyright.generalDiagnostics ELSE <<>>

SourceResults ==
    IF fs.bandit.st = "json" /\ fs.bandit.root = "dict" THEN fs.bandit.results ELSE <<>>

\* the number of failure and error nodes under the suites of the test results
SourceFailureNodes ==
    IF fs.junit.st # "xml" THEN 0
    ELSE LET ss == Suites(fs.junit.root)
             nodes(c) == Len(SelectSeq(c.kids, LAMBDA k : k.tag \in {"failure", "error"}))
             ofSuite(u) == LET cs == IterCases(u)
                           IN  SumSeq([j \in 1..Len(cs) |-> nodes(cs[j])])
         IN  SumSeq([i \in 1..Len(ss) |-> ofSuite(ss[i])])

SourceCoverage ==
    IF fs.coverage.st = "json" /\ fs.coverage.root = "dict" THEN fs.coverage.files ELSE <<>>

\* the rounded percent of the i-th coverage file, in hundredths
Pct(i) == Round2(NumericOrZero(SourceCoverage[i].percent_covered))

BelowSet ==
    {i \in 1..Len(SourceCoverage) : Pct(i) * 10 < args.coverage_threshold}

SourceRows == SelectSeq(fs.commands.lines, LAMBDA parts : Len(parts) >= 4)

Ascending(bt) == \A i, j \in 1..Len(bt) : i < j => bt[i].percent <= bt[j].percent

C9_BelowThreshold ==
    Returned("parse_coverage") =>
        LET bt == below_threshold
            kept == {bt[j].path : j \in 1..Len(bt)}
        IN  /\ \A j \in 1..Len(bt) :
                  /\ bt[j].percent * 10 < args.coverage_threshold
                  /\ \E i \in BelowSet :
                        SourceCoverage[i].path = bt[j].path /\ Pct(i) = bt[j].percent
            /\ Cardinality(kept) = Len(bt)
            /\ Ascending(bt)
            /\ Len(bt) = MinOf(50, Cardinality(BelowSet))
            /\ \A i \in BelowSet :
                  SourceCoverage[i].path \notin kept =>
                      \A j \in 1..Len(bt) : Pct(i) >= bt[j].percent

\* more than 50 files below the threshold, the lowest of them past the 50th of
\* the artifact, and a file exactly at the threshold
C9_Witness ==
    /\ Returned("parse_coverage")
    /\ Cardinality(BelowSet) > 50
    /\ Len(below_threshold) = 50
    /\ below_threshold[1].path > 50
    /\ \E i \in 1..Len(SourceCoverage) : Pct(i) * 10 = args.coverage_threshold

----------------------------------------------------------------------------
(* Runs of main over test results whose testcases mix failure, error and   *)
(* skipped children, the other artifacts being absent.                     *)

\* the child tags of one testcase
KidTags ==
    {<<>>, <<"failure">>, <<"error">>, <<"failure", "error">>,
     <<"error", "failure">>, <<"error", "skipped", "failure">>}

\* testcases named 1, 2, ... with the given child tags, every node with a
\* message of its own
CasesOf(tags) ==
    [c \in 1..Len(tags) |->
        Case(c, [k \in 1..Len(tags[c]) |-> Node(tags[c][k], c * 10 + k)])]

\* the testcases under one root suite, under two suites, or under a suite and
\* a suite nested in it
JunitShapes(cs, n) ==
    LET head == SubSeq(cs, 1, n)
        rest == SubSeq(cs, n + 1, Len(cs))
    IN  {XmlFile("xml", Suite(NumStr(1), Absent, Absent, Absent, cs)),
         XmlFile("xml", SuitesRoot(<<Suite(NumStr(1), Absent, Absent, Absent, head),
                                     Suite(NumStr(1), Absent, Absent, Absent, rest)>>)),
         XmlFile("xml", [Suite(NumStr(1), Absent, Absent, Absent, head) EXCEPT
                            !.children = <<Suite(Absent, Absent, Absent, Absent, rest)>>])}

JunitDocs ==
    UNION {JunitShapes(CasesOf(Pad(p, n) \o tail), n) :
              p \in {<<"failure">>, <<"error", "failure">>}, n \in PadLengths,
              tail \in SeqsUpTo(KidTags, MaxTail)}

InitJunit ==
    \E d \in JunitDocs : Start(DefaultArgs, [NoFiles EXCEPT !.junit = d])

SpecJunit == InitJunit /\ [][Next]_vars

\* the testcases of the test results, in document order
DocCases ==
    IF fs.junit.st # "xml" THEN <<>>
    ELSE LET ss == Suites(fs.junit.root)
         IN  Concat([i \in 1..Len(ss) |-> IterCases(ss[i])])

\* <<c, k>>: the k-th child of the c-th testcase is a failure or an error
FailureNodes ==
    {ck \in (1..Len(DocCases)) \X (1..3) :
        /\ ck[2] <= Len(DocCases[ck[1]].kids)
        /\ DocCases[ck[1]].kids[ck[2]].tag \in {"failure", "error"}}

TagOf(ck) == DocCases[ck[1]].kids[ck[2]].tag

EntryOf(ck) ==
    [nodeid |-> NodeId(DocCases[ck[1]]), message |-> DocCases[ck[1]].kids[ck[2]].msg]

\* x comes before y in the document
DocBefore(x, y) == x[1] < y[1] \/ (x[1] = y[1] /\ x[2] < y[2])

\* x comes before y by testcase, then failures before errors, then by document
GroupedBefore(x, y) ==
    \/ x[1] < y[1]
    \/ /\ x[1] = y[1]
       /\ \/ (TagOf(x) = "failure" /\ TagOf(y) = "error")
          \/ (TagOf(x) = TagOf(y) /\ x[2] < y[2])

----------------------------------------------------------------------------
(* Runs of main without coverage data, under every policy and threshold,   *)
(* the other artifacts being absent or those of the unit tests.            *)

\* a coverage artifact that is missing, empty, or JSON that is not an object
NoCoverageData == {MissingJson, BlankJson, JsonFile("json", "list")}

\* --coverage-threshold, in thousandths of a percent
NoCoverageThresholds == {0, 1, DefaultThreshold, 100000}

InitNoCoverage ==
    \E q \in FailOnQuality, s \in FailOnSecurity, t \in NoCoverageThresholds,
       c \in NoCoverageData, base \in {NoFiles, FixtureFiles} :
        Start(Args(q, s, t), [base EXCEPT !.coverage = c])

SpecNoCoverage == InitNoCoverage /\ [][Next]_vars

\* C12: when the coverage artifact is missing, empty or not a JSON object, the
\* global coverage is 0.0; with fail_on_quality = "any" and a coverage
\* threshold above 0 the run then has quality_blocking = true and ends with
\* exit status 1, whatever the other artifacts report.
C12_AbsentCoverageBlocks ==
    fs.coverage \in NoCoverageData =>
        /\ raised_in # "parse_coverage"
        /\ Returned("parse_coverage") => (cov.total = 0 /\ cov.files = <<>>)
        /\ Aggregated => summary.coverage = 0
        /\ (args.fail_on_quality = "any" /\ args.coverage_threshold > 0) =>
              /\ Aggregated => (gates.quality_blocking /\ gates.blocking)
              /\ pc = "done" => exit_status = 1

\* a finished run with no artifact at all and the smallest positive threshold:
\* nothing is reported, yet the gate blocks and the exit status is 1
C12_Witness ==
    /\ pc = "done"
    /\ fs = NoFiles
    /\ args.fail_on_quality = "any"
    /\ args.coverage_threshold = 1
    /\ summary.ruff_issues = 0 /\ summary.pyright_errors = 0
    /\ summary.tests_failed = 0 /\ command_failures = <<>>
    /\ ~gates.security_blocking
    /\ gates.quality_blocking
    /\ exit_status = 1

====
